---- MODULE Spec2Model ----
(***************************************************************************)
(* Model of the exclusive advisory file lock of rsgcata/go-fs              *)
(* (filelock/windows/filelock_windows.go; filelock/unix has the same       *)
(* control flow around syscall.Flock).                                     *)
(*                                                                         *)
(* Threads call Lock, LockWithTimeout, Unlock, IsLocked and Path on        *)
(* FileLock handles.  Every handle has its own mutex, its file field and   *)
(* its locked flag; the operating system keeps, per path, the descriptor   *)
(* that holds the exclusive lock.  A call is split into the steps between  *)
(* which another thread can observe or change shared state.                *)
(*                                                                         *)
(* Time is counted in nanoseconds, as time.Duration is.  Only time.Sleep   *)
(* lets time pass: Tick advances the clock to the next wake-up while every *)
(* thread is outside a call, blocked on a mutex or asleep.  Each call      *)
(* keeps the time elapsed since its startTime instead of an absolute       *)
(* clock.                                                                  *)
(***************************************************************************)
EXTENDS Integers, FiniteSets, Sequences, TLC

\* ---------------------------------------------------------------- bounds
NumThreads == 3
NumHandles == 2
MaxFaults == 1

Threads == 1..NumThreads
Handles == 1..NumHandles

\* The threads that call any method on any handle in Spec and SpecSeq; all
\* of Threads take part in the shared-handle scenario of SpecShared.
Callers == {1, 2}

NoThread == 0
NoHolder == 0

\* ------------------------------------------------------------- constants
Millisecond == 1000000

\* New(path): the first two handles share a path, later ones alternate.
NewPath(h) == IF h = 1 \/ h % 2 = 0 THEN "p1" ELSE "p2"

\* The timeouts callers pass: negative, zero, and two positive ones.
Timeouts == {0 - Millisecond, 0, 100 * Millisecond, 250 * Millisecond}

Errors ==
  {"ErrTimeout", "ErrLockHeld", "ErrAlreadyLocked", "ErrNotLocked"}
OsErrors == {"EOpen", "ELockFileEx", "EUnlockFileEx", "EClose"}

VARIABLES
  path,      \* fl.path
  file,      \* fl.file: "nil" or "open"
  locked,    \* fl.locked
  mutex,     \* fl.mutex: the thread holding it, or NoThread
  fds,       \* per handle, the descriptors it opened and has not closed
  osLock,    \* per path, the handle whose descriptor holds the OS lock
  faults,    \* OS failures still to be injected
  pc,        \* per thread, its position in the current call
  fl,        \* per thread, the receiver of its current or last call
  op,        \* per thread, the method of its current or last call
  ret,       \* per thread, what its last call returned
  loc,       \* per thread, the locals of its current call (see NoLocals)
  released   \* per thread, history: its path was released during its wait

hvars == <<path, file, locked>>
osvars == <<fds, osLock>>
vars ==
  <<path, file, locked, mutex, fds, osLock, faults, pc, fl, op, ret, loc,
    released>>

\* The locals of a call: the timeout argument, tryLock's err and
\* retryInterval, time.Since(startTime), what is left of the current
\* time.Sleep, and the OS calls made so far.
\* preLocked, preFile and preHolder are history: fl.locked, fl.file and the
\* holder of the path's OS lock when the call got fl.mutex.
NoLocals ==
  [timeout |-> 0, err |-> "nil", retryInterval |-> 0, elapsed |-> 0,
   sleepLeft |-> 0, opens |-> 0, closes |-> 0, attempts |-> 0, sleeps |-> 0,
   preLocked |-> FALSE, preFile |-> "nil", preHolder |-> NoHolder]

\* New(path) for every handle; no thread has called anything yet.
InitHandles ==
  /\ path = [h \in Handles |-> NewPath(h)]
  /\ file = [h \in Handles |-> "nil"]
  /\ locked = [h \in Handles |-> FALSE]
  /\ mutex = [h \in Handles |-> NoThread]
  /\ fds = [h \in Handles |-> 0]
  /\ osLock = [p \in {"p1", "p2"} |-> NoHolder]
  /\ pc = [t \in Threads |-> "idle"]
  /\ fl = [t \in Threads |-> 1]
  /\ op = [t \in Threads |-> "none"]
  /\ ret = [t \in Threads |-> "none"]
  /\ loc = [t \in Threads |-> NoLocals]
  /\ released = [t \in Threads |-> FALSE]

Init == InitHandles /\ faults = MaxFaults

\* ------------------------------------------------------- pure operators

\* Mutant: LockWithTimeout without its re-entry check.
AlreadyLockedNever(h) == FALSE

\* if fl.locked (LockWithTimeout)
AlreadyLocked(h) == locked[h]

\* Mutant: the condition of Unlock's check negated.
NotLockedInverted(h) == locked[h] /\ file[h] # "nil"

\* Mutant: Unlock without its check.
NotLockedNever(h) == FALSE

\* if !fl.locked || fl.file == nil (Unlock)
NotLocked(h) == ~locked[h] \/ file[h] = "nil"

\* Mutant: the request leaves out LOCKFILE_EXCLUSIVE_LOCK, so it is granted
\* whoever holds the lock.
LockFileExShared(h) == "nil"

\* LockFileEx(LOCKFILE_EXCLUSIVE_LOCK|LOCKFILE_FAIL_IMMEDIATELY) on the
\* descriptor of handle h, when the call itself does not fail.
LockFileEx(h) ==
  IF osLock[path[h]] = NoHolder THEN "nil" ELSE "ERROR_LOCK_VIOLATION"

\* Mutant: timeout < 0, so that a zero timeout enters the retry loop.
NonBlockingStrict(T) == T < 0

\* Mutant: the held signal ends the call whatever the timeout.
NonBlockingAlways(T) == TRUE

\* if timeout <= 0
NonBlocking(T) == T <= 0

\* Mutant: the deadline is taken for half the timeout.
TimedOutHalf(e, T) == 2 * e >= T

\* Mutant: the deadline is taken for twice the timeout.
TimedOutLate(e, T) == e >= 2 * T

\* if time.Since(startTime) >= timeout
TimedOut(e, T) == e >= T

\* retryInterval := time.Millisecond * 10
FirstInterval == 10 * Millisecond

\* Mutant: the interval doubles.
NextIntervalDouble(i) == IF i < 100 * Millisecond THEN i * 2 ELSE i

\* if retryInterval < time.Millisecond*100 {
\*     retryInterval = time.Duration(float64(retryInterval) * 1.5) }
NextInterval(i) == IF i < 100 * Millisecond THEN (i * 3) \div 2 ELSE i

\* Whether an OS call may fail now.
FaultChoices == IF faults > 0 THEN {FALSE, TRUE} ELSE {FALSE}

Polling(u) == pc[u] \in {"loop", "sleep"}

\* History: the OS lock of path p became free.
NoteReleased(p) ==
  [u \in Threads |->
    IF Polling(u) /\ path[fl[u]] = p /\ loc[u].elapsed < loc[u].timeout
      THEN TRUE ELSE released[u]]

\* History: thread t acquired the OS lock of path p.
NoteAcquired(p, t) ==
  [u \in Threads |->
    IF u # t /\ path[fl[u]] = p THEN FALSE ELSE released[u]]

\* Mutant: the OS lock outlives the release and the close.
LockSticks(h) == osLock

\* Closing the descriptor of h, or unlocking it, drops the OS lock it holds.
LockAfterClose(h) ==
  IF osLock[path[h]] = h THEN [osLock EXCEPT ![path[h]] = NoHolder] ELSE osLock

ReleasedAfterClose(h) ==
  IF osLock[path[h]] = h THEN NoteReleased(path[h]) ELSE released

\* return r, with the deferred fl.mutex.Unlock(); the locals die.
Return(t, r) ==
  /\ pc' = [pc EXCEPT ![t] = "idle"]
  /\ ret' = [ret EXCEPT ![t] = r]
  /\ mutex' = [mutex EXCEPT ![fl[t]] = NoThread]
  /\ loc' = [loc EXCEPT ![t] = NoLocals]

\* Go on at label with the locals l.
Goto(t, label, l) ==
  /\ pc' = [pc EXCEPT ![t] = label]
  /\ loc' = [loc EXCEPT ![t] = l]
  /\ UNCHANGED <<ret, mutex>>

\* ---------------------------------------------------------------- calls

Enter(t, h, o, T) ==
  /\ pc[t] = "idle"
  /\ pc' = [pc EXCEPT ![t] = "acquire"]
  /\ fl' = [fl EXCEPT ![t] = h]
  /\ op' = [op EXCEPT ![t] = o]
  /\ ret' = [ret EXCEPT ![t] = "none"]
  /\ loc' = [loc EXCEPT ![t] = [NoLocals EXCEPT !.timeout = T]]
  /\ released' = [released EXCEPT ![t] = FALSE]
  /\ UNCHANGED <<hvars, mutex, osvars, faults>>

\* Mutant: Lock() waits for up to 100ms.
LockBlocking(t) == \E h \in Handles : Enter(t, h, "Lock", 100 * Millisecond)

\* func (fl *FileLock) Lock() error { return fl.LockWithTimeout(0) }
Lock(t) == \E h \in Handles : Enter(t, h, "Lock", 0)

LockWithTimeout(t) ==
  \E h \in Handles, T \in Timeouts : Enter(t, h, "LockWithTimeout", T)

Unlock(t) == \E h \in Handles : Enter(t, h, "Unlock", 0)

IsLocked(t) == \E h \in Handles : Enter(t, h, "IsLocked", 0)

\* func (fl *FileLock) Path() string { return fl.path }: no mutex
Path(t) ==
  \E h \in Handles :
    /\ pc[t] = "idle"
    /\ fl' = [fl EXCEPT ![t] = h]
    /\ op' = [op EXCEPT ![t] = "Path"]
    /\ ret' = [ret EXCEPT ![t] = path[h]]
    /\ released' = [released EXCEPT ![t] = FALSE]
    /\ UNCHANGED <<hvars, mutex, osvars, faults, pc, loc>>

\* Mutant: the call goes on without waiting for fl.mutex.
MutexLockNoWait(t) ==
  /\ pc[t] = "acquire"
  /\ mutex' = [mutex EXCEPT ![fl[t]] = t]
  /\ pc' = [pc EXCEPT ![t] =
       CASE op[t] = "Unlock" -> "unlock"
         [] op[t] = "IsLocked" -> "read"
         [] OTHER -> "check"]
  /\ loc' = [loc EXCEPT ![t] =
       [@ EXCEPT !.preLocked = locked[fl[t]], !.preFile = file[fl[t]],
                 !.preHolder = osLock[path[fl[t]]]]]
  /\ UNCHANGED <<hvars, osvars, faults, fl, op, ret, released>>

\* fl.mutex.Lock()
MutexLock(t) ==
  /\ pc[t] = "acquire"
  /\ mutex[fl[t]] = NoThread
  /\ mutex' = [mutex EXCEPT ![fl[t]] = t]
  /\ pc' = [pc EXCEPT ![t] =
       CASE op[t] = "Unlock" -> "unlock"
         [] op[t] = "IsLocked" -> "read"
         [] OTHER -> "check"]
  /\ loc' = [loc EXCEPT ![t] =
       [@ EXCEPT !.preLocked = locked[fl[t]], !.preFile = file[fl[t]],
                 !.preHolder = osLock[path[fl[t]]]]]
  /\ UNCHANGED <<hvars, osvars, faults, fl, op, ret, released>>

\* ------------------------------------------------------ LockWithTimeout

\* if fl.locked { return filelock.ErrAlreadyLocked }
LwtCheck(t) ==
  /\ pc[t] = "check"
  /\ IF AlreadyLocked(fl[t])
       THEN Return(t, "ErrAlreadyLocked")
       ELSE Goto(t, "open", loc[t])
  /\ UNCHANGED <<hvars, osvars, faults, fl, op, released>>

\* fl.file, err = os.OpenFile(...); if err != nil { return err }
LwtOpen(t) ==
  /\ pc[t] = "open"
  /\ \E fail \in FaultChoices :
       IF fail
         THEN /\ file' = [file EXCEPT ![fl[t]] = "nil"]
              /\ faults' = faults - 1
              /\ Return(t, "EOpen")
              /\ UNCHANGED fds
         ELSE /\ file' = [file EXCEPT ![fl[t]] = "open"]
              /\ fds' = [fds EXCEPT ![fl[t]] = @ + 1]
              /\ Goto(t, "tryLock", [loc[t] EXCEPT !.opens = @ + 1])
              /\ UNCHANGED faults
  /\ UNCHANGED <<path, locked, osLock, fl, op, released>>

\* What one LockFileEx call of thread t can return.
AttemptResults(t) ==
  {LockFileEx(fl[t])} \cup (IF faults > 0 THEN {"ELockFileEx"} ELSE {})

\* The effect on the OS of a LockFileEx call of thread t that returned r.
Attempt(t, r) ==
  /\ IF r = "nil"
       THEN /\ osLock' = [osLock EXCEPT ![path[fl[t]]] = fl[t]]
            /\ released' = NoteAcquired(path[fl[t]], t)
       ELSE UNCHANGED <<osLock, released>>
  /\ faults' = IF r = "ELockFileEx" THEN faults - 1 ELSE faults

\* tryLock, up to the retry loop: the first LockFileEx, the early returns,
\* startTime and the first retryInterval.
TryLockFirst(t) ==
  /\ pc[t] = "tryLock"
  /\ \E r \in AttemptResults(t) :
       LET l == [loc[t] EXCEPT !.attempts = @ + 1] IN
       /\ Attempt(t, r)
       /\ IF r # "ERROR_LOCK_VIOLATION"
            THEN Goto(t, "after", [l EXCEPT !.err = r])
            ELSE IF NonBlocking(l.timeout)
              THEN Goto(t, "after", [l EXCEPT !.err = "ErrLockHeld"])
              ELSE Goto(t, "loop",
                        [l EXCEPT !.elapsed = 0, !.retryInterval = FirstInterval])
  /\ UNCHANGED <<hvars, fds, fl, op>>

\* Mutant: fl.mutex is given up for the time of the sleep.
TryLockSleepUnguarded(t) ==
  /\ pc[t] = "loop"
  /\ IF TimedOut(loc[t].elapsed, loc[t].timeout)
       THEN Goto(t, "after", [loc[t] EXCEPT !.err = "ErrTimeout"])
       ELSE /\ pc' = [pc EXCEPT ![t] = "sleep"]
            /\ loc' = [loc EXCEPT ![t] =
                 [@ EXCEPT !.sleepLeft = loc[t].retryInterval,
                           !.sleeps = @ + 1]]
            /\ mutex' = [mutex EXCEPT ![fl[t]] = NoThread]
            /\ UNCHANGED ret
  /\ UNCHANGED <<hvars, osvars, faults, fl, op, released>>

\* Mutant: when the timeout is reached the loop goes round again.
TryLockSleepSpin(t) ==
  /\ pc[t] = "loop"
  /\ IF TimedOut(loc[t].elapsed, loc[t].timeout)
       THEN Goto(t, "loop", loc[t])
       ELSE Goto(t, "sleep",
                 [loc[t] EXCEPT !.sleepLeft = loc[t].retryInterval,
                                !.sleeps = @ + 1])
  /\ UNCHANGED <<hvars, osvars, faults, fl, op, released>>

\* Top of the loop: the timeout check, then time.Sleep(retryInterval) begins.
TryLockSleep(t) ==
  /\ pc[t] = "loop"
  /\ IF TimedOut(loc[t].elapsed, loc[t].timeout)
       THEN Goto(t, "after", [loc[t] EXCEPT !.err = "ErrTimeout"])
       ELSE Goto(t, "sleep",
                 [loc[t] EXCEPT !.sleepLeft = loc[t].retryInterval,
                                !.sleeps = @ + 1])
  /\ UNCHANGED <<hvars, osvars, faults, fl, op, released>>

\* Mutant: in the loop every error of LockFileEx counts as the held signal.
TryLockRetrySwallow(t) ==
  /\ pc[t] = "sleep"
  /\ loc[t].sleepLeft = 0
  /\ \E r \in AttemptResults(t) :
       LET l == [loc[t] EXCEPT !.attempts = @ + 1,
                               !.retryInterval = NextInterval(@)] IN
       /\ Attempt(t, r)
       /\ IF r = "nil"
            THEN Goto(t, "after", [l EXCEPT !.err = r])
            ELSE Goto(t, "loop", l)
  /\ UNCHANGED <<hvars, fds, fl, op>>

\* The sleep is over: the interval grows and LockFileEx is tried again.
TryLockRetry(t) ==
  /\ pc[t] = "sleep"
  /\ loc[t].sleepLeft = 0
  /\ \E r \in AttemptResults(t) :
       LET l == [loc[t] EXCEPT !.attempts = @ + 1,
                               !.retryInterval = NextInterval(@)] IN
       /\ Attempt(t, r)
       /\ IF r # "ERROR_LOCK_VIOLATION"
            THEN Goto(t, "after", [l EXCEPT !.err = r])
            ELSE Goto(t, "loop", l)
  /\ UNCHANGED <<hvars, fds, fl, op>>

\* Mutant: the flag is kept per path, so that a success sets it on every
\* handle of the path.
LwtFinishPerPath(t) ==
  /\ pc[t] = "after"
  /\ IF loc[t].err # "nil"
       THEN /\ fds' = [fds EXCEPT ![fl[t]] = @ - 1]
            /\ osLock' = LockAfterClose(fl[t])
            /\ released' = ReleasedAfterClose(fl[t])
            /\ file' = [file EXCEPT ![fl[t]] = "nil"]
            /\ UNCHANGED locked
       ELSE /\ locked' =
                 [h \in Handles |->
                   IF path[h] = path[fl[t]] THEN TRUE ELSE locked[h]]
            /\ UNCHANGED <<file, fds, osLock, released>>
  /\ Return(t, loc[t].err)
  /\ UNCHANGED <<path, faults, fl, op>>

\* Mutant: the error of tryLock is returned with the file left open.
LwtFinishLeak(t) ==
  /\ pc[t] = "after"
  /\ IF loc[t].err # "nil"
       THEN UNCHANGED <<locked, file, fds, osLock, released>>
       ELSE /\ locked' = [locked EXCEPT ![fl[t]] = TRUE]
            /\ UNCHANGED <<file, fds, osLock, released>>
  /\ Return(t, loc[t].err)
  /\ UNCHANGED <<path, faults, fl, op>>

\* After tryLock: close and forget the file on an error, else locked = true.
LwtFinish(t) ==
  /\ pc[t] = "after"
  /\ IF loc[t].err # "nil"
       THEN /\ fds' = [fds EXCEPT ![fl[t]] = @ - 1]
            /\ osLock' = LockAfterClose(fl[t])
            /\ released' = ReleasedAfterClose(fl[t])
            /\ file' = [file EXCEPT ![fl[t]] = "nil"]
            /\ UNCHANGED locked
       ELSE /\ locked' = [locked EXCEPT ![fl[t]] = TRUE]
            /\ UNCHANGED <<file, fds, osLock, released>>
  /\ Return(t, loc[t].err)
  /\ UNCHANGED <<path, faults, fl, op>>

\* --------------------------------------------------------------- Unlock

\* if !fl.locked || fl.file == nil { return filelock.ErrNotLocked }
UnlockCheck(t) ==
  /\ pc[t] = "unlock"
  /\ IF NotLocked(fl[t])
       THEN Return(t, "ErrNotLocked")
       ELSE Goto(t, "release", loc[t])
  /\ UNCHANGED <<hvars, osvars, faults, fl, op, released>>

\* Mutant: a failed release still closes the file and clears the handle.
ReleaseFailedReset(t) ==
  /\ fds' = [fds EXCEPT ![fl[t]] = @ - 1]
  /\ osLock' = LockAfterClose(fl[t])
  /\ released' = ReleasedAfterClose(fl[t])
  /\ file' = [file EXCEPT ![fl[t]] = "nil"]
  /\ locked' = [locked EXCEPT ![fl[t]] = FALSE]
  /\ Return(t, "EUnlockFileEx")

\* if err != nil { return err } after UnlockFileEx: nothing is closed or
\* cleared.
ReleaseFailed(t) ==
  /\ Return(t, "EUnlockFileEx")
  /\ UNCHANGED <<file, locked, fds, osLock, released>>

\* err := windows.UnlockFileEx(...); if err != nil { return err }
UnlockRelease(t) ==
  /\ pc[t] = "release"
  /\ \E fail \in FaultChoices :
       IF fail
         THEN /\ faults' = faults - 1
              /\ ReleaseFailed(t)
         ELSE /\ osLock' = LockAfterClose(fl[t])
              /\ released' = ReleasedAfterClose(fl[t])
              /\ Goto(t, "close", loc[t])
              /\ UNCHANGED <<faults, file, locked, fds>>
  /\ UNCHANGED <<path, fl, op>>

\* Mutant: Unlock closes the file and leaves fl.locked set.
UnlockCloseKeepsFlag(t) ==
  /\ pc[t] = "close"
  /\ fds' = [fds EXCEPT ![fl[t]] = @ - 1]
  /\ osLock' = LockAfterClose(fl[t])
  /\ released' = ReleasedAfterClose(fl[t])
  /\ file' = [file EXCEPT ![fl[t]] = "nil"]
  /\ UNCHANGED locked
  /\ \E fail \in FaultChoices :
       IF fail
         THEN faults' = faults - 1 /\ Return(t, "EClose")
         ELSE UNCHANGED faults /\ Return(t, "nil")
  /\ UNCHANGED <<path, fl, op>>

\* err = fl.file.Close(); fl.file = nil; fl.locked = false; return err
UnlockClose(t) ==
  /\ pc[t] = "close"
  /\ fds' = [fds EXCEPT ![fl[t]] = @ - 1]
  /\ osLock' = LockAfterClose(fl[t])
  /\ released' = ReleasedAfterClose(fl[t])
  /\ file' = [file EXCEPT ![fl[t]] = "nil"]
  /\ locked' = [locked EXCEPT ![fl[t]] = FALSE]
  /\ \E fail \in FaultChoices :
       IF fail
         THEN faults' = faults - 1 /\ Return(t, "EClose")
         ELSE UNCHANGED faults /\ Return(t, "nil")
  /\ UNCHANGED <<path, fl, op>>

\* ------------------------------------------------------------- IsLocked

\* return fl.locked
IsLockedRead(t) ==
  /\ pc[t] = "read"
  /\ Return(t, IF locked[fl[t]] THEN "true" ELSE "false")
  /\ UNCHANGED <<hvars, osvars, faults, fl, op, released>>

\* ----------------------------------------------------------------- time

Sleepers == {t \in Threads : pc[t] = "sleep" /\ loc[t].sleepLeft > 0}

\* A thread that takes no step until something else happens.
Waiting(t) ==
  \/ pc[t] = "idle"
  \/ pc[t] = "acquire" /\ mutex[fl[t]] # NoThread
  \/ t \in Sleepers

\* Time passes until the next sleeper is due.
Tick ==
  /\ Sleepers # {}
  /\ \A t \in Threads : Waiting(t)
  /\ \E d \in {loc[t].sleepLeft : t \in Sleepers} :
       /\ \A t \in Sleepers : d <= loc[t].sleepLeft
       /\ loc' =
            [t \in Threads |->
              IF t \in Sleepers
                THEN [loc[t] EXCEPT !.sleepLeft = @ - d, !.elapsed = @ + d]
                ELSE loc[t]]
  /\ UNCHANGED <<hvars, mutex, osvars, faults, pc, fl, op, ret, released>>

\* ------------------------------------------------------------ the system

Next ==
  \/ \E t \in Callers : Lock(t)
  \/ \E t \in Callers : LockWithTimeout(t)
  \/ \E t \in Callers : Unlock(t)
  \/ \E t \in Callers : IsLocked(t)
  \/ \E t \in Callers : Path(t)
  \/ \E t \in Threads : MutexLock(t)
  \/ \E t \in Threads : LwtCheck(t)
  \/ \E t \in Threads : LwtOpen(t)
  \/ \E t \in Threads : TryLockFirst(t)
  \/ \E t \in Threads : TryLockSleep(t)
  \/ \E t \in Threads : TryLockRetry(t)
  \/ \E t \in Threads : LwtFinish(t)
  \/ \E t \in Threads : UnlockCheck(t)
  \/ \E t \in Threads : UnlockRelease(t)
  \/ \E t \in Threads : UnlockClose(t)
  \/ \E t \in Threads : IsLockedRead(t)
  \/ Tick

\* Any interleaving of calls by the callers on the handles.
Spec == Init /\ [][Next]_vars

\* No call is in progress.
Quiet == \A t \in Threads : pc[t] = "idle"

\* One call at a time, as the sequential tests make them: a call starts only
\* when no other call is in progress.
NextSeq ==
  \/ \E t \in Callers : Quiet /\ Lock(t)
  \/ \E t \in Callers : Quiet /\ LockWithTimeout(t)
  \/ \E t \in Callers : Quiet /\ Unlock(t)
  \/ \E t \in Callers : Quiet /\ IsLocked(t)
  \/ \E t \in Callers : Quiet /\ Path(t)
  \/ \E t \in Threads : MutexLock(t)
  \/ \E t \in Threads : LwtCheck(t)
  \/ \E t \in Threads : LwtOpen(t)
  \/ \E t \in Threads : TryLockFirst(t)
  \/ \E t \in Threads : TryLockSleep(t)
  \/ \E t \in Threads : TryLockRetry(t)
  \/ \E t \in Threads : LwtFinish(t)
  \/ \E t \in Threads : UnlockCheck(t)
  \/ \E t \in Threads : UnlockRelease(t)
  \/ \E t \in Threads : UnlockClose(t)
  \/ \E t \in Threads : IsLockedRead(t)
  \/ Tick

SpecSeq == Init /\ [][NextSeq]_vars

\* The steps of thread t inside a call.
Step(t) ==
  \/ MutexLock(t)
  \/ LwtCheck(t)
  \/ LwtOpen(t)
  \/ TryLockFirst(t)
  \/ TryLockSleep(t)
  \/ TryLockRetry(t)
  \/ LwtFinish(t)
  \/ UnlockCheck(t)
  \/ UnlockRelease(t)
  \/ UnlockClose(t)
  \/ IsLockedRead(t)

\* Any interleaving in which a thread that can take a step of its call
\* takes one in the end, and time passes again and again whenever all
\* threads wait.
SpecFair ==
  /\ Init
  /\ [][Next]_vars
  /\ \A t \in Threads : WF_vars(Step(t))
  /\ SF_vars(Tick)

\* TestThreadSafety: every thread calls Lock() on the one shared handle and,
\* if that returned nil, Unlock(); the OS calls do not fail.
SharedHandle == 1

SharedLock(t) == op[t] = "none" /\ Enter(t, SharedHandle, "Lock", 0)

SharedUnlock(t) ==
  /\ op[t] = "Lock"
  /\ ret[t] = "nil"
  /\ Enter(t, SharedHandle, "Unlock", 0)

Finished(t) ==
  /\ pc[t] = "idle"
  /\ \/ op[t] = "Unlock"
     \/ op[t] = "Lock" /\ ret[t] # "nil"

NextShared ==
  \/ \E t \in Threads : SharedLock(t)
  \/ \E t \in Threads : SharedUnlock(t)
  \/ \E t \in Threads : MutexLock(t)
  \/ \E t \in Threads : LwtCheck(t)
  \/ \E t \in Threads : LwtOpen(t)
  \/ \E t \in Threads : TryLockFirst(t)
  \/ \E t \in Threads : LwtFinish(t)
  \/ \E t \in Threads : UnlockCheck(t)
  \/ \E t \in Threads : UnlockRelease(t)
  \/ \E t \in Threads : UnlockClose(t)

InitShared == InitHandles /\ faults = 0

SpecShared == InitShared /\ [][NextShared]_vars

\* One handle alone on its path: every thread calls Lock, LockWithTimeout
\* and Unlock on the shared handle, in any order and interleaving, and OS
\* calls may fail. The retry loop is not among the steps: no call gets to
\* it (C21).
OneLock(t) == Enter(t, SharedHandle, "Lock", 0)

OneLockWithTimeout(t) ==
  \E T \in Timeouts : Enter(t, SharedHandle, "LockWithTimeout", T)

OneUnlock(t) == Enter(t, SharedHandle, "Unlock", 0)

NextOne ==
  \/ \E t \in Threads : OneLock(t)
  \/ \E t \in Threads : OneLockWithTimeout(t)
  \/ \E t \in Threads : OneUnlock(t)
  \/ \E t \in Threads : MutexLock(t)
  \/ \E t \in Threads : LwtCheck(t)
  \/ \E t \in Threads : LwtOpen(t)
  \/ \E t \in Threads : TryLockFirst(t)
  \/ \E t \in Threads : LwtFinish(t)
  \/ \E t \in Threads : UnlockCheck(t)
  \/ \E t \in Threads : UnlockRelease(t)
  \/ \E t \in Threads : UnlockClose(t)

SpecOne == Init /\ [][NextOne]_vars

\* ---------------------------------------------------------------- claims

LockOps == {"Lock", "LockWithTimeout"}

\* Thread t returns from its call in this step.
Returning(t) == pc[t] # "idle" /\ pc'[t] = "idle"

\* An Unlock call on handle h has started and not returned.
Unlocking(h) ==
  \E t \in Threads : pc[t] # "idle" /\ op[t] = "Unlock" /\ fl[t] = h

\* Handle h is between the return of a successful Lock or LockWithTimeout
\* and the start of the next Unlock call on it.
ToldHeld(h) == locked[h] /\ ~Unlocking(h)

\* C1: mutual exclusion across handles: no two distinct handles bound to the
\* same path are at the same time between a successful Lock/LockWithTimeout
\* return and the start of the matching Unlock.
C1_MutualExclusion ==
  \A g, h \in Handles :
    (g # h /\ path[g] = path[h]) => ~(ToldHeld(g) /\ ToldHeld(h))

\* C1 witness: one handle is told it holds the lock while a call on another
\* handle of the same path has just been refused the lock.
C1_Witness ==
  \E t \in Threads, g \in Handles :
    /\ g # fl[t]
    /\ path[g] = path[fl[t]]
    /\ ToldHeld(g)
    /\ pc[t] = "after"
    /\ loc[t].err \in {"ErrLockHeld", "ErrTimeout"}


\* C2: Lock/Unlock round trip, one call at a time and unless an OS call
\* fails: Lock on a handle in its constructed state whose path nobody holds
\* returns nil and leaves it locked; IsLocked returns the flag; Unlock on a
\* locked handle returns nil and leaves it as constructed (unlocked, no file,
\* no open descriptor).
C2_RoundTrip ==
  [][\A t \in Threads :
       Returning(t) =>
         /\ ( /\ op[t] = "Lock"
              /\ ~loc[t].preLocked
              /\ loc[t].preFile = "nil"
              /\ loc[t].preHolder = NoHolder
              /\ ret'[t] \notin OsErrors )
            => ( /\ ret'[t] = "nil"
                 /\ locked'[fl[t]]
                 /\ file'[fl[t]] = "open" )
         /\ op[t] = "IsLocked"
            => ret'[t] = (IF loc[t].preLocked THEN "true" ELSE "false")
         /\ ( /\ op[t] = "Unlock"
              /\ loc[t].preLocked
              /\ ret'[t] \notin OsErrors )
            => ( /\ ret'[t] = "nil"
                 /\ ~locked'[fl[t]]
                 /\ file'[fl[t]] = "nil"
                 /\ fds'[fl[t]] = 0 )]_vars

\* C2 witness: an Unlock has returned nil, which takes a Lock that returned
\* nil before it, and the handle is as constructed.
C2_Witness ==
  \E t \in Threads :
    /\ pc[t] = "idle"
    /\ op[t] = "Unlock"
    /\ ret[t] = "nil"
    /\ ~locked[fl[t]]
    /\ file[fl[t]] = "nil"
    /\ fds[fl[t]] = 0

C4_UnlockNotLocked ==
  [][\A t \in Threads :
       ( /\ pc[t] = "unlock"
         /\ ~loc[t].preLocked
         /\ pc'[t] # pc[t] )
       => ( /\ pc'[t] = "idle"
            /\ ret'[t] = "ErrNotLocked"
            /\ loc[t].closes = 0
            /\ ~locked'[fl[t]]
            /\ file' = file
            /\ fds' = fds
            /\ osLock' = osLock )]_vars

\* C4 witness: an Unlock has returned ErrNotLocked.
C4_Witness ==
  \E t \in Threads :
    /\ pc[t] = "idle"
    /\ op[t] = "Unlock"
    /\ ret[t] = "ErrNotLocked"
    /\ ~locked[fl[t]]

\* C5: external contention without waiting, one call at a time: while another
\* handle A of the same path holds the lock, Lock() or LockWithTimeout with a
\* timeout <= 0 on handle B returns ErrLockHeld (unless the OS call fails), B
\* stays unlocked with no file and no descriptor, and A is unaffected.
C5_LockHeld ==
  [][\A t \in Threads :
       LET A == loc[t].preHolder
           B == fl[t]
       IN ( /\ Returning(t)
            /\ op[t] \in LockOps
            /\ loc[t].timeout <= 0
            /\ A # NoHolder
            /\ A # B
            /\ locked[A]
            /\ ret'[t] \notin OsErrors )
          => ( /\ ret'[t] = "ErrLockHeld"
               /\ ~locked'[B]
               /\ file'[B] = "nil"
               /\ fds'[B] = 0
               /\ locked'[A]
               /\ file'[A] = file[A]
               /\ fds'[A] = fds[A]
               /\ osLock' = osLock )]_vars

\* C5 witness: a call without waiting has returned ErrLockHeld on a handle
\* whose path another, locked handle holds.
C5_Witness ==
  \E t \in Threads, A \in Handles :
    /\ pc[t] = "idle"
    /\ op[t] \in LockOps
    /\ ret[t] = "ErrLockHeld"
    /\ A # fl[t]
    /\ osLock[path[fl[t]]] = A
    /\ locked[A]
    /\ ~locked[fl[t]]

\* LockWithTimeout(100ms) of thread t, on a handle whose path another handle
\* held when the call began, is through with tryLock without an OS failure.
TimedWait100(t) ==
  /\ pc[t] = "after"
  /\ op[t] = "LockWithTimeout"
  /\ loc[t].timeout = 100 * Millisecond
  /\ loc[t].preHolder \notin {NoHolder, fl[t]}
  /\ loc[t].err \notin OsErrors

\* C6 as claimed: against a holder that never releases, LockWithTimeout(100ms)
\* returns ErrTimeout between 100ms and about 115ms after the wait began.
C6_Original ==
  \A t \in Threads :
    TimedWait100(t) =>
      /\ loc[t].err = "ErrTimeout"
      /\ loc[t].elapsed >= 100 * Millisecond
      /\ loc[t].elapsed <= 115 * Millisecond

\* C6 as amended: against a holder that never releases, LockWithTimeout(100ms)
\* returns ErrTimeout no sooner than 100ms and no later than 131.875ms after
\* the wait began: the sleeps 10 + 15 + 22.5 + 33.75 + 50.625 ms.
C6_TimeoutWindow ==
  \A t \in Threads :
    TimedWait100(t) =>
      /\ loc[t].err = "ErrTimeout"
      /\ loc[t].elapsed >= 100 * Millisecond
      /\ loc[t].elapsed <= 131875 * 1000

\* C6 witness: such a call is about to return ErrTimeout.
C6_Witness ==
  \E t \in Threads : TimedWait100(t) /\ loc[t].err = "ErrTimeout"

\* C7: a waiter acquires after a release: if, while thread t polls inside
\* LockWithTimeout(T > 0), the path's lock is released before t's deadline
\* and nobody else takes it, the call returns nil (not ErrTimeout), unless
\* the OS call itself fails, and the handle ends locked.
C7_WaiterAcquires ==
  [][\A t \in Threads :
       ( /\ pc[t] = "after"
         /\ Returning(t)
         /\ loc[t].timeout > 0
         /\ released[t]
         /\ loc[t].err \notin OsErrors )
       => ( /\ ret'[t] = "nil"
            /\ locked'[fl[t]]
            /\ osLock'[path[fl[t]]] = fl[t] )]_vars

\* C7 witness: a polling call got the lock after it was released during its
\* wait.
C7_Witness ==
  \E t \in Threads :
    /\ pc[t] = "after"
    /\ loc[t].timeout > 0
    /\ loc[t].sleeps > 0
    /\ released[t]
    /\ loc[t].err = "nil"

\* C8: thread safety on one shared handle: when every thread calls Lock() on
\* the same handle and Unlock() exactly if its Lock() returned nil, every
\* Lock() returns nil, ErrAlreadyLocked or ErrLockHeld, every Unlock()
\* returns nil, and when all threads are done the handle is not locked.
C8_ThreadSafety ==
  /\ \A t \in Threads :
       pc[t] = "idle" =>
         /\ op[t] = "Lock" =>
              ret[t] \in {"nil", "ErrAlreadyLocked", "ErrLockHeld"}
         /\ op[t] = "Unlock" => ret[t] = "nil"
  /\ (\A t \in Threads : Finished(t)) => ~locked[SharedHandle]

\* C8 witness: all threads are done, one of them unlocked and another was
\* refused.
C8_Witness ==
  /\ \A t \in Threads : Finished(t)
  /\ \E t, u \in Threads :
       /\ op[t] = "Unlock"
       /\ op[u] = "Lock"
       /\ ret[u] = "ErrAlreadyLocked"

RECURSIVE Geometric(_)
Geometric(k) == IF k <= 1 THEN 10 * Millisecond ELSE (Geometric(k - 1) * 3) \div 2

\* The k-th sleep as claimed: the geometric value, at most 100ms.
CappedInterval(k) ==
  IF Geometric(k) > 100 * Millisecond THEN 100 * Millisecond ELSE Geometric(k)

\* C10 as claimed: the k-th sleep of a LockWithTimeout call lasts the
\* geometric value 10ms * 1.5^(k-1) capped at 100ms, and no sleep is longer
\* than 100ms.
C10_Original ==
  \A t \in Threads :
    pc[t] = "sleep" =>
      /\ loc[t].retryInterval = CappedInterval(loc[t].sleeps)
      /\ loc[t].retryInterval <= 100 * Millisecond

\* The time thread t has slept in its call when its current or last sleep
\* began.
SleptBefore(t) ==
  IF pc[t] = "sleep"
    THEN loc[t].elapsed - (loc[t].retryInterval - loc[t].sleepLeft)
    ELSE loc[t].elapsed

\* C11 as claimed: a LockWithTimeout(T > 0) call sleeps for at most T in
\* all, and returns nil only from an attempt made before T has elapsed.
C11_Original ==
  \A t \in Threads :
    loc[t].timeout > 0 =>
      /\ loc[t].elapsed <= loc[t].timeout
      /\ (pc[t] = "after" /\ loc[t].err = "nil") =>
           loc[t].elapsed < loc[t].timeout

\* C11 as amended: in a LockWithTimeout(T > 0) call every sleep begins
\* before T has elapsed and runs its full interval, so the call sleeps for
\* less than T plus its last interval in all, which is less than
\* T + 113.90625ms; the attempt after the last sleep is made whether or not T
\* has elapsed by then and its result is returned, nil included.
C11_SleepBound ==
  \A t \in Threads :
    loc[t].timeout > 0 =>
      /\ pc[t] = "sleep" => SleptBefore(t) < loc[t].timeout
      /\ loc[t].elapsed < loc[t].timeout + 113906250
      /\ (pc[t] = "after" /\ loc[t].sleeps > 0) =>
           /\ loc[t].elapsed < loc[t].timeout + loc[t].retryInterval
           /\ loc[t].err \in {"nil", "ErrTimeout", "ELockFileEx"}

\* C11 witness: a call is about to return nil from an attempt made after its
\* timeout has elapsed.
C11_Witness ==
  \E t \in Threads :
    /\ pc[t] = "after"
    /\ loc[t].timeout > 0
    /\ loc[t].elapsed > loc[t].timeout
    /\ loc[t].err = "nil"

\* C12: no leak on a failed acquisition: when Lock or LockWithTimeout returns
\* an error other than ErrAlreadyLocked (the error of the open, ErrLockHeld,
\* ErrTimeout or the error of a lock attempt), the descriptors the call
\* opened were all still open before its last step and none is after it, the
\* handle has no file, is not locked and holds no OS lock: it is as
\* constructed.
C12_NoLeak ==
  [][\A t \in Threads :
       ( /\ Returning(t)
         /\ op[t] \in LockOps
         /\ ret'[t] \notin {"nil", "ErrAlreadyLocked"} )
       => ( /\ ret'[t] \in {"EOpen", "ErrLockHeld", "ErrTimeout", "ELockFileEx"}
            /\ loc[t].opens = (IF ret'[t] = "EOpen" THEN 0 ELSE 1)
            /\ fds[fl[t]] = loc[t].opens
            /\ fds'[fl[t]] = 0
            /\ file'[fl[t]] = "nil"
            /\ ~locked'[fl[t]]
            /\ osLock'[path[fl[t]]] # fl[t] )]_vars

\* C12 witness: a LockWithTimeout call that opened the file has returned
\* ErrTimeout or the error of a lock attempt, and its handle has no file, no
\* descriptor and is not locked.
C12_Witness ==
  \E t \in Threads :
    /\ pc[t] = "idle"
    /\ op[t] = "LockWithTimeout"
    /\ ret[t] \in {"ErrTimeout", "ELockFileEx"}
    /\ mutex[fl[t]] = NoThread
    /\ fds[fl[t]] = 0
    /\ file[fl[t]] = "nil"
    /\ ~locked[fl[t]]

\* A Lock or LockWithTimeout call of thread t that does not wait.
NoWaitCall(t) == pc[t] # "idle" /\ op[t] \in LockOps /\ loc[t].timeout <= 0

C14_ErrorPartition ==
  [][\A t \in Threads :
       Returning(t) =>
         /\ ret'[t] = "ErrLockHeld" =>
              (op[t] \in LockOps /\ loc[t].timeout <= 0)
         /\ ret'[t] = "ErrTimeout" =>
              (op[t] = "LockWithTimeout" /\ loc[t].timeout > 0)]_vars

\* C14 witness: one call with a positive timeout is about to return
\* ErrTimeout and an earlier call without waiting has returned ErrLockHeld.
C14_Witness ==
  \E t, u \in Threads :
    /\ pc[t] = "after"
    /\ loc[t].timeout > 0
    /\ loc[t].err = "ErrTimeout"
    /\ pc[u] = "idle"
    /\ ret[u] = "ErrLockHeld"

\* Thread t is inside the body of LockWithTimeout with a timeout > 0.
InTimedCall(t) ==
  /\ pc[t] \notin {"idle", "acquire"}
  /\ op[t] = "LockWithTimeout"
  /\ loc[t].timeout > 0

\* C15: LockWithTimeout terminates: every LockWithTimeout(T) call with T > 0
\* that has got the handle's mutex returns in the end, provided time keeps
\* passing, whatever the other threads and handles do and even if the holder
\* of the OS lock never releases it.
C15_Terminates ==
  \A t \in Threads : InTimedCall(t) ~> pc[t] = "idle"

\* C15 witness: a LockWithTimeout call has returned ErrTimeout while another
\* handle, still locked, holds the OS lock of its path.
C15_Witness ==
  \E t \in Threads, A \in Handles :
    /\ pc[t] = "idle"
    /\ op[t] = "LockWithTimeout"
    /\ ret[t] = "ErrTimeout"
    /\ A # fl[t]
    /\ osLock[path[fl[t]]] = A
    /\ locked[A]

\* Handle h has an open descriptor that holds the OS lock of its path.
HoldsOsLock(h) ==
  file[h] = "open" /\ fds[h] = 1 /\ osLock[path[h]] = h

\* Handle h has no descriptor.
NoDescriptor(h) == file[h] = "nil" /\ fds[h] = 0

\* C16 as claimed: in every reachable state, the states in the middle of a
\* call included, a locked handle has an open descriptor that holds the OS
\* lock and a handle that is not locked has no descriptor.
C16_Original ==
  \A h \in Handles :
    /\ locked[h] => HoldsOsLock(h)
    /\ ~locked[h] => NoDescriptor(h)

\* C16 as amended: in every reachable state in which no call holds the
\* mutex of the handle, a locked handle has an open descriptor that holds
\* the OS lock and a handle that is not locked has no descriptor and holds
\* no OS lock; in the middle of a call only this much holds: a locked handle
\* has an open descriptor.
C16_StateInvariant ==
  \A h \in Handles :
    /\ locked[h] => (file[h] = "open" /\ fds[h] = 1)
    /\ mutex[h] = NoThread =>
         /\ locked[h] => HoldsOsLock(h)
         /\ ~locked[h] => (NoDescriptor(h) /\ osLock[path[h]] # h)

\* C16 witness: one handle is locked with its mutex free and holds the OS
\* lock, while a call on another handle is in the middle of its wait, its
\* file open and its flag not set.
C16_Witness ==
  \E g, h \in Handles :
    /\ mutex[h] = NoThread
    /\ locked[h]
    /\ HoldsOsLock(h)
    /\ mutex[g] # NoThread
    /\ pc[mutex[g]] = "sleep"
    /\ file[g] = "open"
    /\ ~locked[g]

\* The threads inside the body of a call on handle h: past fl.mutex.Lock()
\* and not yet returned.
InBody(h) == {t \in Threads : fl[t] = h /\ pc[t] \notin {"idle", "acquire"}}

\* C17: guard discipline on one handle: at most one thread is inside the
\* body of a call on the handle, and it holds the handle's mutex; a step
\* that changes the flag or the file of the handle is a step of the thread
\* that holds its mutex; and when IsLocked reads the flag, the descriptor is
\* open exactly if the flag is set and a set flag goes with a held OS lock,
\* and the flag is what IsLocked returns.
C17_GuardDiscipline ==
  [][/\ \A h \in Handles :
          /\ Cardinality(InBody(h)) <= 1
          /\ \A t \in InBody(h) : mutex[h] = t
          /\ (locked'[h] # locked[h] \/ file'[h] # file[h]) =>
               /\ mutex[h] \in InBody(h)
               /\ pc'[mutex[h]] # pc[mutex[h]]
     /\ \A t \in Threads :
          pc[t] = "read" =>
            /\ locked[fl[t]] <=> file[fl[t]] = "open"
            /\ locked[fl[t]] => osLock[path[fl[t]]] = fl[t]
            /\ Returning(t) =>
                 ret'[t] = (IF locked[fl[t]] THEN "true" ELSE "false")]_vars

\* C17 witness: a call sleeps in the middle of LockWithTimeout, its file open
\* and its flag not set, while an IsLocked call of another thread on the
\* same handle waits for the mutex.
C17_Witness ==
  \E t, u \in Threads :
    /\ t # u
    /\ fl[t] = fl[u]
    /\ pc[t] = "sleep"
    /\ file[fl[t]] = "open"
    /\ ~locked[fl[t]]
    /\ mutex[fl[t]] = t
    /\ pc[u] = "acquire"
    /\ op[u] = "IsLocked"

\* An OS call of thread t fails in this step.
OsCallFails(t) == pc'[t] # pc[t] /\ faults' < faults

\* C18: OS errors pass through and stop the protocol: when the open fails,
\* the call returns its error in that step, having tried no OS lock; when
\* LockFileEx fails with another error than the held signal, at the first
\* attempt or at a retry, tryLock is over in that step with that error, and
\* the call then returns exactly that error with no further sleep or attempt.
C18_Passthrough ==
  [][\A t \in Threads :
       /\ (pc[t] = "open" /\ OsCallFails(t)) =>
            /\ pc'[t] = "idle"
            /\ ret'[t] = "EOpen"
            /\ loc[t].attempts = 0
       /\ (pc[t] \in {"tryLock", "sleep"} /\ OsCallFails(t)) =>
            /\ pc'[t] = "after"
            /\ loc'[t].err = "ELockFileEx"
            /\ loc'[t].attempts = loc[t].attempts + 1
            /\ loc'[t].sleeps = loc[t].sleeps
       /\ (pc[t] = "after" /\ loc[t].err \in OsErrors) =>
            /\ loc'[t].attempts \in {loc[t].attempts, 0}
            /\ pc'[t] \in {"after", "idle"}
            /\ pc'[t] = "idle" => ret'[t] = loc[t].err]_vars

\* C18 witness: a retry of LockFileEx, after at least one sleep, has failed
\* with an OS error and the call is about to return it.
C18_Witness ==
  \E t \in Threads :
    /\ pc[t] = "after"
    /\ loc[t].sleeps > 0
    /\ loc[t].attempts > 1
    /\ loc[t].err = "ELockFileEx"

\* The last call of thread u was an Unlock, on a handle of path p, that
\* returned nil.
UnlockedLast(u, p) ==
  /\ pc[u] = "idle"
  /\ op[u] = "Unlock"
  /\ ret[u] = "nil"
  /\ path[fl[u]] = p

\* No handle of path p has acquired since: none is locked, the handle of the
\* calling thread t not counted.
NoneAcquired(t, p) ==
  \A g \in Handles : (path[g] = p /\ g # fl[t]) => ~locked[g]

\* C19: a release is visible and the lock can be taken again, one call at a
\* time: after an Unlock on a handle of the path has returned nil and while
\* no handle of the path has acquired since, a Lock() on any handle of that
\* path, the same or another, returns nil and the handle holds the OS lock,
\* unless an OS call of that Lock() fails.
C19_ReleaseVisible ==
  [][\A t, u \in Threads :
       ( /\ Returning(t)
         /\ op[t] = "Lock"
         /\ u # t
         /\ UnlockedLast(u, path[fl[t]])
         /\ NoneAcquired(t, path[fl[t]])
         /\ ~loc[t].preLocked
         /\ ret'[t] \notin OsErrors )
       => ( /\ ret'[t] = "nil"
            /\ locked'[fl[t]]
            /\ osLock'[path[fl[t]]] = fl[t] )]_vars

\* C19 witness: after an Unlock on one handle returned nil, a Lock() on
\* another handle of the same path has returned nil and that handle is
\* locked.
C19_Witness ==
  \E t, u \in Threads :
    /\ u # t
    /\ UnlockedLast(u, path[fl[t]])
    /\ fl[u] # fl[t]
    /\ pc[t] = "idle"
    /\ op[t] = "Lock"
    /\ ret[t] = "nil"
    /\ locked[fl[t]]
    /\ ~locked[fl[u]]

\* The flag, the file and the descriptors of handle h are left as they are.
Untouched(h) ==
  locked'[h] = locked[h] /\ file'[h] = file[h] /\ fds'[h] = fds[h]

\* C20: handles are independent: a step of a call on handle A, whichever of
\* Lock, LockWithTimeout, Unlock, IsLocked and Path it is, leaves the flag,
\* the file and the descriptors of every other handle B as they are, also
\* when A and B have the same path; the path of every handle is always the
\* argument of its New, and that is what Path returns.
C20_Independent ==
  [][/\ \A h \in Handles : path[h] = NewPath(h) /\ path'[h] = NewPath(h)
     /\ \A t \in Threads :
          (pc'[t] # pc[t] \/ op'[t] # op[t] \/ ret'[t] # ret[t]) =>
            /\ \A B \in Handles : B # fl'[t] => Untouched(B)
            /\ op'[t] = "Path" => ret'[t] = NewPath(fl'[t])
     /\ \A B \in Handles :
          ~Untouched(B) =>
            \E t \in InBody(B) : pc'[t] # pc[t]]_vars

\* C20 witness: handle A is locked with its file open, an Unlock on another
\* handle B of the same path has returned ErrNotLocked and B is as
\* constructed, and a Path call has returned the path.
C20_Witness ==
  \E t, u \in Threads, A \in Handles :
    /\ t # u
    /\ A # fl[t]
    /\ path[A] = path[fl[t]]
    /\ locked[A]
    /\ file[A] = "open"
    /\ pc[t] = "idle"
    /\ op[t] = "Unlock"
    /\ ret[t] = "ErrNotLocked"
    /\ ~locked[fl[t]]
    /\ file[fl[t]] = "nil"
    /\ op[u] = "Path"
    /\ ret[u] = NewPath(fl[u])

InTimedWait(t) == InTimedCall(t) /\ pc[t] \in {"loop", "sleep", "after"}

\* Thread u has called Lock, LockWithTimeout, Unlock or IsLocked on handle h
\* and has not returned.
Calling(u, h) == pc[u] # "idle" /\ fl[u] = h

\* C22: the mutex is held across the whole retry loop, the sleeps included:
\* while a thread is in the retry loop of LockWithTimeout(T > 0) on a handle,
\* it holds the mutex of the handle, and a Lock, LockWithTimeout, Unlock or
\* IsLocked call of another thread on the same handle stays before the
\* mutex: it takes no step and does not return until the waiting call has
\* returned.
C22_GuardAcrossWait ==
  [][\A t, u \in Threads :
       (t # u /\ InTimedWait(t)) =>
         /\ mutex[fl[t]] = t
         /\ Calling(u, fl[t]) =>
              /\ pc[u] = "acquire"
              /\ (pc'[u] # "acquire") => pc'[t] = "idle"
              /\ ~Returning(u)]_vars

\* C22 witness: a LockWithTimeout call has slept past its timeout and is
\* about to return ErrTimeout, while a Lock() or IsLocked() call of another
\* thread on the same handle still waits for the mutex.
C22_Witness ==
  \E t, u \in Threads :
    /\ t # u
    /\ pc[t] = "after"
    /\ loc[t].timeout > 0
    /\ loc[t].elapsed >= loc[t].timeout
    /\ loc[t].err = "ErrTimeout"
    /\ Calling(u, fl[t])
    /\ pc[u] = "acquire"
    /\ op[u] \in {"Lock", "IsLocked"}

====
